---- MODULE Spec2Model ----
(***************************************************************************)
(* ccoin: the wire-protocol packet parser (lib/net/parser.js) and the      *)
(* consensus helpers (lib/protocol/consensus.js).                          *)
(*                                                                         *)
(* A byte is a natural number in 0..255 and a Buffer is a sequence of      *)
(* bytes.  The parser's fields are the variables pending, total, waiting   *)
(* and header; the other parser variables are history (ghost) variables    *)
(* that record what the parser did: the notifications it emitted, the      *)
(* calls it made to the codec, the number of bytes it took off the queue.  *)
(***************************************************************************)
EXTENDS Integers, Sequences, FiniteSets, TLC

VARIABLES
  parser,      \* the Parser object: its fields pending, total, waiting and
               \* header, and the history fields (see Parser below)
  stream,      \* environment: the bytes the peer sends on this connection
  pos,         \* environment: how many bytes of stream have been fed
  pieceLen,    \* environment: the size of the pieces the transport delivers
  gap,         \* environment: whether the transport delivers an empty buffer
               \* before each piece ("never"), and if so whether the next
               \* buffer is the empty one ("due") or the piece ("done"); a
               \* transport that delivers single bytes delivers no empty ones
  cs           \* the consensus functions' inputs and results

vars == <<parser, stream, pos, pieceLen, gap, cs>>

----------------------------------------------------------------------------
(* Bounds of the model *)

\* frames (catalogue items) per stream
MaxFrames == 2
\* how far from each boundary of the subsidy schedule heights are drawn
MaxDelta == 2
\* the transport delivers pieces of 1..MaxPiece bytes, or of a header's 24
\* bytes plus 0..MaxPiece
MaxPiece == 2
\* big numbers are drawn with 0..MaxPad zero bytes below their significant
\* bytes, and with that many above the 28 that bring them to 32 bytes
MaxPad == 1

----------------------------------------------------------------------------
(* Helpers on byte sequences *)

Min(a, b) == IF a < b THEN a ELSE b

\* Buffer.prototype.slice(from, to): bytes from..to-1 (0-based)
Slice(buf, from, to) == SubSeq(buf, from + 1, to)

RECURSIVE Flatten(_)
Flatten(bufs) == IF bufs = <<>> THEN <<>> ELSE Head(bufs) \o Flatten(Tail(bufs))

\* data.readUInt32LE(off, true)
ReadUInt32LE(data, off) ==
  data[off + 1] + 256 * data[off + 2] + 65536 * data[off + 3]
    + 16777216 * data[off + 4]

\* the four little-endian bytes of a 32-bit value
UInt32LE(n) ==
  << n % 256, (n \div 256) % 256, (n \div 65536) % 256, (n \div 16777216) % 256 >>

\* data.toString('ascii', from, to): each byte with its high bit cleared
ToAscii(data, from, to) == [k \in 1..(to - from) |-> data[from + k] % 128]

----------------------------------------------------------------------------
(* Collaborators of the parser that live outside the parser's file *)

\* common.MAX_MESSAGE: the largest payload accepted.  The model instantiates
\* it with the smallest value the parser supports (a 24-byte header chunk
\* must pass parse's assertion).
MAX_MESSAGE == 24

\* network.magic, as the four bytes on the wire and as the number read
MagicBytes == <<1, 2, 3, 4>>
NetworkMagic == ReadUInt32LE(MagicBytes, 0)

RECURSIVE SumBytes(_)
SumBytes(data) == IF data = <<>> THEN 0 ELSE Head(data) + SumBytes(Tail(data))

\* digest.hash256(data), of which the parser reads only the first four
\* bytes: a deterministic digest of the payload (a stand-in for SHA-256d).
\* Its bytes, like all bytes of the model's streams, are below 128, so
\* that any four of them read as a 32-bit number stay below 2^31.
hash256(data) ==
  << (SumBytes(data) + 93) % 128, (3 * Len(data) + 118) % 128,
     (SumBytes(data) \div 128 + 96) % 128, (7 * Len(data) + 98) % 128 >>

\* command names, as ASCII
CmdPing == <<112, 105, 110, 103>>
CmdInv == <<105, 110, 118>>

\* packets.fromRaw(cmd, data): the decoded message, or an exception.  An
\* 'inv' payload is a count followed by count 36-byte items; any other
\* command decodes whatever its payload is.
fromRaw(cmd, data) ==
  IF cmd = CmdInv /\ (data = <<>> \/ Len(data) # 1 + 36 * data[1])
    THEN [ok |-> FALSE, val |-> <<"Out of bounds read">>]
    ELSE [ok |-> TRUE, val |-> [cmd |-> cmd, raw |-> data]]

\* util.mb(size)
mb(size) == size \div 1048576

----------------------------------------------------------------------------
(* The parser: lib/net/parser.js *)

Null == <<>>

\* function Header(cmd, size, checksum)
Header(cmd, size, checksum) == [cmd |-> cmd, size |-> size, checksum |-> checksum]

\* function Parser(network): the fields after construction.  Besides the
\* object's own fields (pending, total, waiting, header) the record carries
\* history fields:
\*   log         the 'packet' and 'error' notifications, in order
\*   threw       "none", or the exception that escaped feed
\*   consumed    bytes taken off the queue so far
\*   fed         bytes handed to feed so far
\*   callStart   bytes handed to feed before the call in progress
\*   frameStart  stream offset of the header chunk last parsed
\*   codecCalls  the stream offsets of the frames handed to the codec
\*   lastStep    the outcome of the last completed parse step
\*   steps       iterations of feed's outer loop in the last call
\*   buffered    bytes in the queue when the last call entered its loop
\*   stepLog     for each iteration of the last call: the bytes it took off
\*               the queue, whether it parsed a payload, and waiting after it
\* and the state of the attached listener:
\*   listener    the bytes it holds (rest) and how many of them it feeds
\*               back to the parser from inside each notification (n; 0 for
\*               a listener that never calls feed)
Parser ==
  [ pending |-> <<>>, total |-> 0, waiting |-> 24, header |-> Null,
    log |-> <<>>, threw |-> "none", consumed |-> 0, fed |-> 0, callStart |-> 0,
    frameStart |-> 0,
    codecCalls |-> <<>>, lastStep |-> "none", steps |-> 0,
    buffered |-> 0, stepLog |-> <<>>,
    listener |-> [n |-> 0, rest |-> <<>>] ]

RECURSIVE feed(_, _)

\* this.emit(type, val): the listener runs synchronously, inside the call.
\* It records the notification (what was emitted, for which bytes of the
\* stream, how much had been fed by then and before the call, and the
\* framing state it finds) and, if it is one that feeds, calls feed with
\* the next bytes it holds before it returns.
emit(p, type, val) ==
  LET q == [p EXCEPT !.log = Append(@,
              [ type |-> type, val |-> val,
                start |-> p.frameStart, end |-> p.consumed, fedAt |-> p.fed,
                callStart |-> p.callStart,
                header |-> p.header, waiting |-> p.waiting ])]
      k == Min(q.listener.n, Len(q.listener.rest))
  IN IF k = 0
       THEN q
       ELSE feed([q EXCEPT !.listener.rest = Slice(@, k, Len(@))],
                 Slice(q.listener.rest, 0, k))

\* Parser.prototype.error: format the message and emit it
error(p, msg, arg) == emit(p, "error", <<msg, arg>>)

\* a scan that stops one byte early
CmdLength_ScanEleven(data) ==
  IF \E k \in 0..10 : data[k + 5] = 0
    THEN CHOOSE k \in 0..10 : data[k + 5] = 0 /\ \A j \in 0..(k - 1) : data[j + 5] # 0
    ELSE 12

\* the scan of parseHeader: the length of the command, 12 when no NUL ends it
CmdLength(data) ==
  IF \E k \in 0..11 : data[k + 5] = 0
    THEN CHOOSE k \in 0..11 : data[k + 5] = 0 /\ \A j \in 0..(k - 1) : data[j + 5] # 0
    ELSE 12

\* a parseHeader that does not check the magic
parseHeader_SkipMagic(p, data) ==
  LET i == CmdLength(data) IN
  IF i = 12
    THEN [p |-> error(p, "Non NULL-terminated command", 0), ret |-> Null]
    ELSE
      LET cmd == ToAscii(data, 4, 4 + i)
          size == ReadUInt32LE(data, 16)
      IN
      IF size > MAX_MESSAGE
        THEN [ p |-> error([p EXCEPT !.waiting = 24],
                           "Packet length too large", mb(size)),
               ret |-> Null ]
        ELSE [ p |-> [p EXCEPT !.waiting = size],
               ret |-> Header(cmd, size, ReadUInt32LE(data, 20)) ]

\* Parser.prototype.parseHeader: the parser after it and the value returned
parseHeader(p, data) ==
  LET magic == ReadUInt32LE(data, 0) IN
  IF magic # NetworkMagic
    THEN [p |-> error(p, "Invalid magic value", magic), ret |-> Null]
    ELSE
      LET i == CmdLength(data) IN
      IF i = 12
        THEN [p |-> error(p, "Non NULL-terminated command", 0), ret |-> Null]
        ELSE
          LET cmd == ToAscii(data, 4, 4 + i)
              size == ReadUInt32LE(data, 16)
          IN
          IF size > MAX_MESSAGE
            THEN [ p |-> error([p EXCEPT !.waiting = 24],
                               "Packet length too large", mb(size)),
                   ret |-> Null ]
            ELSE [ p |-> [p EXCEPT !.waiting = size],
                   ret |-> Header(cmd, size, ReadUInt32LE(data, 20)) ]

\* a reset that forgets to clear the header
Reset_KeepHeader(p) == [p EXCEPT !.waiting = 24]

\* this.waiting = 24; this.header = null
Reset(p) == [p EXCEPT !.waiting = 24, !.header = Null]

\* a comparison that accepts every checksum
ChecksumMatches_Always(checksum, hdr) == TRUE

\* checksum !== this.header.checksum, negated
ChecksumMatches(checksum, hdr) == checksum = hdr.checksum

\* Parser.prototype.parsePayload
parsePayload(cmd, data) == fromRaw(cmd, data)

\* a parse without the try/catch around parsePayload
parse_NoCatch(p, data) ==
  IF ~(Len(data) <= MAX_MESSAGE)
    THEN [p EXCEPT !.threw = "AssertionError: data.length <= MAX_MESSAGE"]
  ELSE IF p.header = Null
    THEN
      LET r == parseHeader([p EXCEPT !.frameStart = p.consumed - Len(data)], data) IN
      IF r.p.threw # "none"
        THEN r.p
        ELSE [r.p EXCEPT !.header = r.ret,
                         !.lastStep = IF r.ret = Null THEN "header_error"
                                                      ELSE "header_ok"]
  ELSE
    LET checksum == ReadUInt32LE(hash256(data), 0) IN
    IF ~ChecksumMatches(checksum, p.header)
      THEN error([Reset(p) EXCEPT !.lastStep = "payload"],
                 "Invalid checksum", checksum)
      ELSE
        LET payload == parsePayload(p.header.cmd, data)
            q == [Reset(p) EXCEPT !.lastStep = "payload",
                                  !.codecCalls = Append(@, p.frameStart)]
        IN
        IF ~payload.ok
          THEN [p EXCEPT !.threw = payload.val[1]]
          ELSE emit(q, "packet", payload.val)

\* Parser.prototype.parse: one fully buffered chunk
parse(p, data) ==
  IF ~(Len(data) <= MAX_MESSAGE)
    THEN [p EXCEPT !.threw = "AssertionError: data.length <= MAX_MESSAGE"]
  ELSE IF p.header = Null
    THEN
      LET r == parseHeader([p EXCEPT !.frameStart = p.consumed - Len(data)], data) IN
      IF r.p.threw # "none"
        THEN r.p
        ELSE [r.p EXCEPT !.header = r.ret,
                         !.lastStep = IF r.ret = Null THEN "header_error"
                                                      ELSE "header_ok"]
  ELSE
    LET checksum == ReadUInt32LE(hash256(data), 0) IN
    IF ~ChecksumMatches(checksum, p.header)
      THEN error([Reset(p) EXCEPT !.lastStep = "payload"],
                 "Invalid checksum", checksum)
      ELSE
        LET payload == parsePayload(p.header.cmd, data)
            q == [Reset(p) EXCEPT !.lastStep = "payload",
                                  !.codecCalls = Append(@, p.frameStart)]
        IN
        IF ~payload.ok
          THEN emit(q, "error", payload.val)
          ELSE emit(q, "packet", payload.val)

\* a partly consumed buffer left whole at the head of the queue
Advance_NoSlice(buf, len) == buf

\* this.pending[0].slice(len)
Advance(buf, len) == Slice(buf, len, Len(buf))

\* the inner loop of feed: fill chunk[off..] from the head of the queue
RECURSIVE CopyLoop(_, _, _, _)
CopyLoop(pend, chunk, off, n) ==
  IF ~(off < n)
    THEN [pending |-> pend, chunk |-> chunk, off |-> off, ok |-> TRUE]
  ELSE IF pend = <<>>
    THEN [pending |-> pend, chunk |-> chunk, off |-> off, ok |-> FALSE]
  ELSE
    LET len == Min(Len(pend[1]), n - off) IN
    IF len = Len(pend[1])
      THEN CopyLoop(Tail(pend), chunk \o pend[1], off + len, n)
      ELSE CopyLoop(<<Advance(pend[1], len)>> \o Tail(pend),
                    chunk \o Slice(pend[1], 0, len), off + len, n)

\* a loop that runs one byte early
Ready_OneEarly(p) == p.total + 1 >= p.waiting

\* a loop that needs one byte more than the step
Ready_Strict(p) == p.total > p.waiting

\* the condition of feed's outer loop
Ready(p) == p.total >= p.waiting

\* the record of one iteration in stepLog
StepRecord(p, removed, q) ==
  [q EXCEPT !.stepLog = Append(@, [ removed |-> removed,
                                    payload |-> p.header # Null,
                                    waitingAfter |-> q.waiting ])]

\* an iteration that forgets this.total -= chunk.length
FeedStep_NoDecrement(p) ==
  LET c == CopyLoop(p.pending, <<>>, 0, p.waiting) IN
  IF ~c.ok
    THEN [p EXCEPT !.pending = c.pending,
                   !.threw = "TypeError: pending[0] is undefined"]
  ELSE IF c.off # p.waiting
    THEN [p EXCEPT !.pending = c.pending,
                   !.threw = "AssertionError: off === chunk.length"]
  ELSE
    StepRecord(p, c.off,
               parse([p EXCEPT !.pending = c.pending,
                               !.consumed = @ + c.off,
                               !.steps = @ + 1],
                     c.chunk))

\* one iteration of feed's outer loop: fill a chunk of waiting bytes from
\* the queue, take it off the total, parse it
FeedStep(p) ==
  LET c == CopyLoop(p.pending, <<>>, 0, p.waiting) IN
  IF ~c.ok
    THEN [p EXCEPT !.pending = c.pending,
                   !.threw = "TypeError: pending[0] is undefined"]
  ELSE IF c.off # p.waiting
    THEN [p EXCEPT !.pending = c.pending,
                   !.threw = "AssertionError: off === chunk.length"]
  ELSE
    StepRecord(p, c.off,
               parse([p EXCEPT !.pending = c.pending,
                               !.total = @ - p.waiting,
                               !.consumed = @ + c.off,
                               !.steps = @ + 1],
                     c.chunk))

\* an outer loop that runs at most one step per call (if for while)
FeedLoop_OneStep(p) ==
  IF p.threw # "none" \/ ~Ready(p) THEN p ELSE FeedStep(p)

\* the outer loop of feed
RECURSIVE FeedLoop(_)
FeedLoop(p) ==
  IF p.threw # "none" \/ ~Ready(p) THEN p ELSE FeedLoop(FeedStep(p))

\* new data put at the head of the queue
Push_Unshift(p, data) ==
  [p EXCEPT !.total = @ + Len(data), !.pending = <<data>> \o @]

\* this.total += data.length; this.pending.push(data)
Push(p, data) == [p EXCEPT !.total = @ + Len(data), !.pending = Append(@, data)]

\* Parser.prototype.feed
feed(p, data) ==
  FeedLoop([Push(p, data) EXCEPT !.callStart = p.fed,
                                 !.fed = @ + Len(data),
                                 !.steps = 0,
                                 !.buffered = p.total + Len(data),
                                 !.stepLog = <<>>])

----------------------------------------------------------------------------
(* Big numbers: lib/crypto/bn, as far as the consensus functions use it.   *)
(* A BN is a sign and a magnitude; the magnitude is its little-endian      *)
(* bytes without high zero bytes, so that zero is the empty sequence.      *)

RECURSIVE Strip(_)
Strip(bytes) ==
  IF bytes # <<>> /\ bytes[Len(bytes)] = 0
    THEN Strip(SubSeq(bytes, 1, Len(bytes) - 1))
    ELSE bytes

RECURSIVE NumberBytes(_)
NumberBytes(n) == IF n = 0 THEN <<>> ELSE <<n % 256>> \o NumberBytes(n \div 256)

\* new BN(number), number >= 0
BN(n) == [neg |-> FALSE, mag |-> NumberBytes(n)]

\* new BN(buffer, 'le')
BNFromLE(bytes) == [neg |-> FALSE, mag |-> Strip(bytes)]

isZero(a) == a.mag = <<>>
isNeg(a) == a.neg
byteLength(a) == Len(a.mag)

\* ineg: flips the sign of a number that is not zero
ineg(a) == IF isZero(a) THEN a ELSE [a EXCEPT !.neg = ~@]

\* iushln(bits), for the whole-byte shifts the consensus functions make
iushln(a, bits) ==
  IF isZero(a) THEN a
  ELSE [a EXCEPT !.mag = [k \in 1..(bits \div 8) |-> 0] \o @]

\* ucmp: compare magnitudes, from the most significant byte down
RECURSIVE CmpFrom(_, _, _)
CmpFrom(a, b, k) ==
  IF k = 0 THEN 0
  ELSE IF a[k] > b[k] THEN 1
  ELSE IF a[k] < b[k] THEN -1
  ELSE CmpFrom(a, b, k - 1)

ucmp(a, b) ==
  IF Len(a.mag) > Len(b.mag) THEN 1
  ELSE IF Len(a.mag) < Len(b.mag) THEN -1
  ELSE CmpFrom(a.mag, b.mag, Len(a.mag))

cmp(a, b) ==
  IF a.neg /\ ~b.neg THEN -1
  ELSE IF ~a.neg /\ b.neg THEN 1
  ELSE IF a.neg THEN 0 - ucmp(a, b)
  ELSE ucmp(a, b)

gt(a, b) == cmp(a, b) > 0
gte(a, b) == cmp(a, b) >= 0

\* the value of a magnitude
RECURSIVE MagValue(_)
MagValue(mag) == IF mag = <<>> THEN 0 ELSE Head(mag) + 256 * MagValue(Tail(mag))

\* toNumber: the value as a Number, with the sign of the BN
toNumber(a) == IF a.neg THEN 0 - MagValue(a.mag) ELSE MagValue(a.mag)

\* ushrn(bits), for whole-byte shifts: a copy with the low bytes of the
\* magnitude dropped and the sign kept (zero has no sign)
ushrn(a, bits) ==
  LET mag == SubSeq(a.mag, bits \div 8 + 1, Len(a.mag)) IN
  [neg |-> a.neg /\ mag # <<>>, mag |-> mag]

----------------------------------------------------------------------------
(* Consensus: lib/protocol/consensus.js *)

\* exports.COIN: one coin in satoshis.  Every subsidy the code assigns is a
\* whole number k of coins, k * COIN satoshis; the model carries k.
COIN == 100000000

\* exports.MAX_MONEY = 115000000 * exports.COIN, in coins
MAX_MONEY == 115000000

\* A 32-bit word (an unsigned 32-bit Number, or the bit pattern of a signed
\* one) is its four bytes, the most significant first.
U32(b3, b2, b1, b0) == <<b3, b2, b1, b0>>

\* the bit pattern of a Number in the signed 32-bit range (ToInt32): two's
\* complement, which floored division and remainder yield for negatives too
Int32Bits(i) ==
  U32((i \div 16777216) % 256, (i \div 65536) % 256, (i \div 256) % 256, i % 256)

\* a | b and a & b on bytes
RECURSIVE BitOr(_, _)
BitOr(a, b) ==
  IF a = 0 THEN b
  ELSE IF b = 0 THEN a
  ELSE 2 * BitOr(a \div 2, b \div 2) + (IF a % 2 = 1 \/ b % 2 = 1 THEN 1 ELSE 0)

RECURSIVE BitAnd(_, _)
BitAnd(a, b) ==
  IF a = 0 \/ b = 0 THEN 0
  ELSE 2 * BitAnd(a \div 2, b \div 2) + (IF a % 2 = 1 /\ b % 2 = 1 THEN 1 ELSE 0)

\* a | b and a & b on 32-bit words
Or32(a, b) == [k \in 1..4 |-> BitOr(a[k], b[k])]
And32(a, b) == [k \in 1..4 |-> BitAnd(a[k], b[k])]

\* a fromCompact that does not shift the mantissa of a small exponent
fromCompact_NoShift(compact) ==
  IF compact = U32(0, 0, 0, 0) THEN BN(0)
  ELSE
    LET exponent == compact[1]
        negative == compact[2] \div 128
        mantissa == (compact[2] % 128) * 65536 + compact[3] * 256 + compact[4]
        num == IF exponent <= 3
                 THEN BN(mantissa)
                 ELSE iushln(BN(mantissa), 8 * (exponent - 3))
    IN IF negative # 0 THEN ineg(num) ELSE num

\* exports.fromCompact; compact >>> 24 is the top byte of the word,
\* (compact >>> 23) & 1 the top bit of the next byte and compact & 0x7fffff
\* the 23 bits below it
fromCompact(compact) ==
  IF compact = U32(0, 0, 0, 0) THEN BN(0)
  ELSE
    LET exponent == compact[1]
        negative == compact[2] \div 128
        mantissa == (compact[2] % 128) * 65536 + compact[3] * 256 + compact[4]
        num == IF exponent <= 3
                 THEN BN(mantissa \div 2^(8 * (3 - exponent)))
                 ELSE iushln(BN(mantissa), 8 * (exponent - 3))
    IN IF negative # 0 THEN ineg(num) ELSE num

\* a toCompact without the step that keeps the mantissa off the sign bit
toCompact_NoCarry(num) ==
  IF isZero(num) THEN U32(0, 0, 0, 0)
  ELSE
    LET exponent == byteLength(num)
        mantissa == IF exponent <= 3
                      THEN toNumber(num) * 2^(8 * (3 - exponent))
                      ELSE toNumber(ushrn(num, 8 * (exponent - 3)))
        compact == Or32(U32(exponent % 256, 0, 0, 0), Int32Bits(mantissa))
    IN IF isNeg(num) THEN Or32(compact, U32(0, 128, 0, 0)) ELSE compact

\* exports.toCompact.  The mantissa is a Number the bitwise operators take
\* as a signed 32-bit value: mantissa <<= n multiplies (the product stays
\* within 24 bits), mantissa & 0x800000 reads bit 23 of its two's
\* complement, mantissa >>= 8 is the floored quotient, exponent << 24 puts
\* the low byte of exponent in the top byte, and compact >>>= 0 reads the
\* resulting bit pattern as an unsigned word.
toCompact(num) ==
  IF isZero(num) THEN U32(0, 0, 0, 0)
  ELSE
    LET exponent0 == byteLength(num)
        mantissa0 == IF exponent0 <= 3
                       THEN toNumber(num) * 2^(8 * (3 - exponent0))
                       ELSE toNumber(ushrn(num, 8 * (exponent0 - 3)))
        carry == (mantissa0 \div 8388608) % 2 # 0
        mantissa == IF carry THEN mantissa0 \div 256 ELSE mantissa0
        exponent == IF carry THEN exponent0 + 1 ELSE exponent0
        compact == Or32(U32(exponent % 256, 0, 0, 0), Int32Bits(mantissa))
    IN IF isNeg(num) THEN Or32(compact, U32(0, 128, 0, 0)) ELSE compact

\* a check that also rejects a hash equal to the target
verifyPOW_RejectEqual(network, block, hash, bits) ==
  LET target == fromCompact(bits) IN
  IF isNeg(target) \/ isZero(target) THEN FALSE
  ELSE IF gte(BNFromLE(hash), target) THEN FALSE
  ELSE TRUE

\* exports.verifyPOW
verifyPOW(network, block, hash, bits) ==
  LET target == fromCompact(bits)
      powLimit == IF block.hasNewPowVersion
                    THEN network.keccakPow.limit
                    ELSE network.pow.limit
  IN
  IF isNeg(target) \/ isZero(target) THEN FALSE
  ELSE
    LET num == BNFromLE(hash) IN
    IF gt(num, target) THEN FALSE
    ELSE TRUE

\* the bands of getReward, in the order of its if statements: the subsidy
\* (in coins) of a height with gt < height <= le
Bands ==
  << [le |-> 6765, gt |-> 1, coins |-> 1],
     [le |-> 10946, gt |-> 6765, coins |-> 1],
     [le |-> 17711, gt |-> 10946, coins |-> 2],
     [le |-> 28657, gt |-> 17711, coins |-> 3],
     [le |-> 46368, gt |-> 28657, coins |-> 5],
     [le |-> 75025, gt |-> 46368, coins |-> 8],
     [le |-> 121393, gt |-> 75025, coins |-> 13],
     [le |-> 196418, gt |-> 121393, coins |-> 21],
     [le |-> 317811, gt |-> 196148, coins |-> 34],
     [le |-> 514229, gt |-> 317811, coins |-> 55],
     [le |-> 832040, gt |-> 514229, coins |-> 34],
     [le |-> 1346269, gt |-> 832040, coins |-> 21],
     [le |-> 2178309, gt |-> 1346269, coins |-> 13],
     [le |-> 3524578, gt |-> 2178309, coins |-> 8],
     [le |-> 5702887, gt |-> 3524578, coins |-> 5],
     [le |-> 9227465, gt |-> 5702887, coins |-> 3],
     [le |-> 14930352, gt |-> 9227465, coins |-> 2],
     [le |-> 24157817, gt |-> 14930352, coins |-> 1] >>

\* the if statements of getReward from the k-th on: each one that matches
\* overwrites the subsidy
RECURSIVE ApplyBands(_, _, _)
ApplyBands(height, subsidy, k) ==
  IF k > Len(Bands) THEN subsidy
  ELSE ApplyBands(height,
                  IF height <= Bands[k].le /\ height > Bands[k].gt
                    THEN Bands[k].coins
                    ELSE subsidy,
                  k + 1)

\* exports.VERSION_TOP_BITS = 0x20000000, exports.VERSION_TOP_MASK = 0xe0000000
VERSION_TOP_BITS == U32(32, 0, 0, 0)
VERSION_TOP_MASK == U32(224, 0, 0, 0)

\* 1 << bit: the shift count is taken modulo 32, and the result is the
\* word with that one bit set
ShiftLeftOne(bit) ==
  LET n == bit % 32 IN
  [k \in 1..4 |-> IF 4 - k = n \div 8 THEN 2^(n % 8) ELSE 0]

\* a hasBit that does not mask the version before comparing its top bits
hasBit_NoMask(version, bit) ==
  LET TOP_MASK == VERSION_TOP_MASK
      TOP_BITS == VERSION_TOP_BITS
      bits == version
      mask == ShiftLeftOne(bit)
  IN bits = TOP_BITS /\ And32(version, mask) # U32(0, 0, 0, 0)

\* exports.hasBit
hasBit(version, bit) ==
  LET TOP_MASK == VERSION_TOP_MASK
      TOP_BITS == VERSION_TOP_BITS
      bits == And32(version, TOP_MASK)
      mask == ShiftLeftOne(bit)
  IN bits = TOP_BITS /\ And32(version, mask) # U32(0, 0, 0, 0)

\* a getReward without its assertion
getReward_NoAssert(height) ==
  [ok |-> TRUE,
   coins |-> ApplyBands(height, IF height < 2 THEN 12226641 ELSE 0, 1)]

\* exports.getReward: the assertion, then the subsidy in coins
getReward(height) ==
  IF ~(height >= 0)
    THEN [ok |-> FALSE, coins |-> 0]
    ELSE [ok |-> TRUE,
          coins |-> ApplyBands(height, IF height < 2 THEN 12226641 ELSE 0, 1)]

----------------------------------------------------------------------------
(* The peer: the byte streams a connection may carry *)

\* a 12-byte command field: the name, NUL-padded
CmdField(cmd) == cmd \o [k \in 1..(12 - Len(cmd)) |-> 0]

\* a frame on the wire: magic, command, length, checksum, payload
Frame(magic, cmdField, size, checksum, payload) ==
  magic \o cmdField \o UInt32LE(size) \o checksum \o payload

\* a frame a well-behaved peer sends
GoodFrame(cmd, payload) ==
  Frame(MagicBytes, CmdField(cmd), Len(payload), hash256(payload), payload)

\* a checksum field that differs from the payload's in its byte k (1..4)
BadChecksum(payload, k) ==
  [hash256(payload) EXCEPT ![k] = (@ + 1) % 128]

FullPayload == [k \in 1..MAX_MESSAGE |-> k % 7]

\* what a peer may send: well-formed frames (no payload, a payload, the
\* longest command with the largest payload), a frame the codec rejects, and
\* frames damaged in one field: the checksum, the magic (its payload then
\* shifts what follows off the frame boundaries), the command, the length
Catalogue ==
  << GoodFrame(CmdPing, <<>>),
     GoodFrame(CmdPing, <<5, 6>>),
     GoodFrame([k \in 1..11 |-> 97], FullPayload),
     GoodFrame(CmdInv, <<>>),
     Frame(MagicBytes, CmdField(CmdPing), 2, BadChecksum(<<5, 6>>, 4), <<5, 6>>),
     Frame(<<1, 2, 3, 5>>, CmdField(CmdPing), 2, hash256(<<5, 6>>), <<5, 6>>),
     Frame(MagicBytes, [k \in 1..12 |-> 97], 0, hash256(<<>>), <<>>),
     Frame(MagicBytes, CmdField(CmdPing), MAX_MESSAGE + 1, hash256(<<>>), <<>>) >>

Streams ==
  { Flatten([k \in 1..n |-> Catalogue[items[k]]]) :
      n \in 1..MaxFrames, items \in [1..MaxFrames -> 1..Len(Catalogue)] }

----------------------------------------------------------------------------
(* The connection: a transport that feeds the parser *)

CsIdle == [op |-> "none"]

\* the sizes of the pieces a transport may deliver: a few bytes, or a
\* header's worth and a few bytes more
PieceSizes == (1..MaxPiece) \cup { 24 + d : d \in 0..MaxPiece }

Init ==
  /\ parser = Parser
  /\ stream \in Streams
  /\ pos = 0
  /\ pieceLen \in PieceSizes
  /\ gap \in IF pieceLen = 1 THEN {"never"} ELSE {"never", "due"}
  /\ cs = CsIdle

\* socket.on('data', d => parser.feed(d)): one whole call of feed with the
\* next n bytes of the stream
Feed(n) ==
  /\ parser.threw = "none"
  /\ parser' = feed(parser, Slice(stream, pos, pos + n))
  /\ pos' = pos + n
  /\ UNCHANGED <<stream, pieceLen, cs>>

\* the transport delivers its next piece: pieceLen bytes, or what is left
FeedPiece ==
  /\ gap # "due"
  /\ pos < Len(stream)
  /\ Feed(Min(pieceLen, Len(stream) - pos))
  /\ gap' = IF gap = "done" THEN "due" ELSE gap

\* the transport delivers an empty buffer
FeedEmpty ==
  /\ gap = "due"
  /\ Feed(0)
  /\ gap' = "done"

Next == FeedPiece \/ FeedEmpty

Spec == Init /\ [][Next]_vars

----------------------------------------------------------------------------
(* A connection whose listener feeds the parser from inside notifications *)

\* the transport delivers the first pieceLen bytes of the stream in one
\* call of feed; the listener holds the bytes after them and, each time it
\* is notified, feeds the next n of them before it returns
InitReentrant ==
  /\ stream \in Streams
  /\ pos = 0
  /\ pieceLen \in PieceSizes
  /\ gap = "never"
  /\ cs = CsIdle
  /\ \E n \in PieceSizes :
       parser = [Parser EXCEPT !.listener =
                   [n |-> n, rest |-> Slice(stream, pieceLen, Len(stream))]]

\* the one call of feed made by the transport, with every call the
\* listener makes inside it; pos counts the bytes fed by either
FeedOuter ==
  /\ parser.fed = 0
  /\ parser' = feed(parser, Slice(stream, 0, Min(pieceLen, Len(stream))))
  /\ pos' = parser'.fed
  /\ UNCHANGED <<stream, pieceLen, gap, cs>>

NextReentrant == FeedOuter

SpecReentrant == InitReentrant /\ [][NextReentrant]_vars

----------------------------------------------------------------------------
(* Callers of the consensus functions *)

\* the parser side of a state in which only consensus functions run
ParserIdle ==
  /\ parser = Parser
  /\ stream = <<>>
  /\ pos = 0
  /\ pieceLen = 1
  /\ gap = "never"

\* a compact value from its exponent byte and its low 24 bits
Compact(exponent, low) ==
  U32(exponent, low \div 65536, (low \div 256) % 256, low % 256)

\* block.bits values: zero, a set sign bit, mantissas shifted out, small
\* and large exponents
PowBits ==
  { Compact(0, 0), Compact(0, 8388608), Compact(1, 13398), Compact(1, 1193046),
    Compact(2, 32768), Compact(3, 8388608), Compact(4, 1193046),
    Compact(4, 9581654), Compact(29, 65535), Compact(32, 8388607),
    Compact(33, 1), Compact(34, 65535) }

Pad32(bytes) == bytes \o [k \in 1..(32 - Len(bytes)) |-> 0]

\* the hash h with d added to its byte k
Nudge(h, k, d) == [h EXCEPT ![k] = (@ + d) % 256]

\* hashes: 0, 1, 2^256 - 1, and for each target that fits in 32 bytes the
\* hash equal to it and neighbours above and below
PowHashes ==
  { Pad32(<<>>), Pad32(<<1>>), [k \in 1..32 |-> 255] }
  \cup UNION { LET h == Pad32(fromCompact(bits).mag) IN
               {h} \cup { Nudge(h, k, d) :
                            k \in {1, byteLength(fromCompact(bits)), 32},
                            d \in {1, 255} } :
               bits \in { b \in PowBits :
                            /\ ~isZero(fromCompact(b))
                            /\ byteLength(fromCompact(b)) <= 32 } }

\* Network descriptors: the two limits
PowLimits == { fromCompact(Compact(29, 65535)), fromCompact(Compact(30, 65535)) }
Networks ==
  { [pow |-> [limit |-> a], keccakPow |-> [limit |-> b]] : a, b \in PowLimits }

InitPOW ==
  /\ ParserIdle
  /\ \E network \in Networks, new \in BOOLEAN, hash \in PowHashes, bits \in PowBits :
       cs = [ op |-> "verifyPOW", network |-> network,
              block |-> [hasNewPowVersion |-> new],
              hash |-> hash, bits |-> bits, done |-> FALSE, result |-> FALSE ]

\* a caller checks a block's proof of work
VerifyPOW ==
  /\ cs.op = "verifyPOW"
  /\ ~cs.done
  /\ cs' = [cs EXCEPT !.done = TRUE,
                      !.result = verifyPOW(cs.network, cs.block, cs.hash, cs.bits)]
  /\ UNCHANGED <<parser, stream, pos, pieceLen, gap>>

NextPOW == VerifyPOW

SpecPOW == InitPOW /\ [][NextPOW]_vars

\* the heights at which the subsidy schedule changes, in the code or in the
\* documented table
Boundaries ==
  { 0, 1, 6765, 10946, 17711, 28657, 46368, 75025, 121393, 196148, 196418,
    317811, 514229, 832040, 1346269, 2178309, 3524578, 5702887, 9227465,
    14930352, 24157817 }

Heights == { b + d : b \in Boundaries, d \in (0 - MaxDelta)..MaxDelta }

InitReward ==
  /\ ParserIdle
  /\ \E height \in Heights :
       cs = [ op |-> "getReward", height |-> height, done |-> FALSE,
              result |-> [ok |-> FALSE, coins |-> 0] ]

\* a caller asks for the subsidy of a height
GetReward ==
  /\ cs.op = "getReward"
  /\ ~cs.done
  /\ cs' = [cs EXCEPT !.done = TRUE, !.result = getReward(cs.height)]
  /\ UNCHANGED <<parser, stream, pos, pieceLen, gap>>

NextReward == GetReward

SpecReward == InitReward /\ [][NextReward]_vars

\* big numbers handed to toCompact: one to four significant bytes above
\* some zero bytes, of either sign; 28 zero bytes and more bring a
\* four-byte body to 32 bytes and beyond
BodyBytes == {0, 1, 127, 128, 255}
Bodies ==
  { b \in UNION { [1..n -> BodyBytes] : n \in 1..4 } : b[Len(b)] # 0 }
Pads == (0..MaxPad) \cup { 28 + d : d \in 0..MaxPad } \cup {124, 252}
Nums ==
  { [neg |-> FALSE, mag |-> <<>>] }
  \cup { [neg |-> neg, mag |-> [k \in 1..pad |-> 0] \o b] :
           neg \in BOOLEAN, pad \in Pads, b \in Bodies }

\* compact values handed to fromCompact
CompactWords ==
  { U32(e, b2, b1, b0) :
      e \in {0, 1, 2, 3, 4, 5, 29, 32, 33, 127, 128, 255},
      b2 \in {0, 1, 127, 128, 255}, b1 \in {0, 1, 255}, b0 \in {0, 1, 255} }

InitCompact ==
  /\ ParserIdle
  /\ \/ \E num \in Nums :
          cs = [ op |-> "toCompact", num |-> num, stage |-> 0,
                 compact |-> U32(0, 0, 0, 0), back |-> BN(0) ]
     \/ \E compact \in CompactWords :
          cs = [ op |-> "fromCompact", compact |-> compact, stage |-> 0,
                 num |-> BN(0), back |-> U32(0, 0, 0, 0) ]

\* a caller encodes a number: the one it was given, or the one it has just
\* decoded
ToCompact ==
  /\ \/ /\ cs.op = "toCompact"
        /\ cs.stage = 0
        /\ cs' = [cs EXCEPT !.stage = 1, !.compact = toCompact(cs.num)]
     \/ /\ cs.op = "fromCompact"
        /\ cs.stage = 1
        /\ cs' = [cs EXCEPT !.stage = 2, !.back = toCompact(cs.num)]
  /\ UNCHANGED <<parser, stream, pos, pieceLen, gap>>

\* a caller decodes a compact value: the one it was given, or the one it
\* has just encoded
FromCompact ==
  /\ \/ /\ cs.op = "fromCompact"
        /\ cs.stage = 0
        /\ cs' = [cs EXCEPT !.stage = 1, !.num = fromCompact(cs.compact)]
     \/ /\ cs.op = "toCompact"
        /\ cs.stage = 1
        /\ cs' = [cs EXCEPT !.stage = 2, !.back = fromCompact(cs.compact)]
  /\ UNCHANGED <<parser, stream, pos, pieceLen, gap>>

NextCompact == ToCompact \/ FromCompact

SpecCompact == InitCompact /\ [][NextCompact]_vars

\* block versions and the bit indexes asked about
Versions ==
  { U32(b3, b2, b1, b0) :
      b3 \in {0, 1, 31, 32, 33, 48, 63, 64, 65, 96, 128, 160, 161, 192, 224, 255},
      b2 \in {0, 128}, b1 \in {0, 1}, b0 \in {0, 1, 255} }

InitHasBit ==
  /\ ParserIdle
  /\ \E version \in Versions, bit \in 0..31 :
       cs = [ op |-> "hasBit", version |-> version, bit |-> bit,
              done |-> FALSE, result |-> FALSE ]

\* a caller tests a version bit
HasBit ==
  /\ cs.op = "hasBit"
  /\ ~cs.done
  /\ cs' = [cs EXCEPT !.done = TRUE, !.result = hasBit(cs.version, cs.bit)]
  /\ UNCHANGED <<parser, stream, pos, pieceLen, gap>>

NextHasBit == HasBit

SpecHasBit == InitHasBit /\ [][NextHasBit]_vars

\* the heights getReward compares its argument with: between two
\* neighbours (above one, up to the other) no condition changes, so all
\* heights there get the same subsidy
Cuts ==
  {0 - 1, 1} \cup { Bands[k].le : k \in 1..Len(Bands) }
             \cup { Bands[k].gt : k \in 1..Len(Bands) }

LastCut == 24157817

InitSupply ==
  /\ ParserIdle
  /\ cs = [op |-> "supply", height |-> 0, coins |-> 0]

\* the chain grows by one block, whose coinbase claims getReward(height);
\* taken for the first blocks after a cut
MineBlock ==
  /\ cs.op = "supply"
  /\ \E c \in Cuts : c < cs.height /\ cs.height <= c + 1 + MaxDelta
  /\ getReward(cs.height).ok
  /\ cs' = [cs EXCEPT !.height = @ + 1, !.coins = @ + getReward(cs.height).coins]
  /\ UNCHANGED <<parser, stream, pos, pieceLen, gap>>

\* the chain grows by the blocks cs.height..t, which lie between two
\* neighbouring cuts and so all claim the subsidy of the first
MineRun ==
  /\ cs.op = "supply"
  /\ \E c \in Cuts, d \in 0..MaxDelta :
       LET t == c - d IN
       /\ t > cs.height
       /\ ~\E c2 \in Cuts : cs.height <= c2 /\ c2 < t
       /\ getReward(cs.height).ok
       /\ cs' = [cs EXCEPT !.height = t + 1,
                           !.coins = @ + (t - cs.height + 1) * getReward(cs.height).coins]
  /\ UNCHANGED <<parser, stream, pos, pieceLen, gap>>

NextSupply == MineBlock \/ MineRun

SpecSupply == InitSupply /\ [][NextSupply]_vars

----------------------------------------------------------------------------
(* What the stream holds, read off the bytes without the parser *)

\* the bytes fed so far
Fed == Slice(stream, 0, pos)

\* a notification as the listener receives it, without the history tags
Notification(e) == [type |-> e.type, val |-> e.val]
Notifications(p) == [i \in 1..Len(p.log) |-> Notification(p.log[i])]

\* the offsets at which the parser began to read a header
Starts == {0} \cup {parser.log[i].end : i \in 1..Len(parser.log)}

EntriesAt(s) == SelectSeq(parser.log, LAMBDA e : e.start = s)

HasHeaderAt(s) == s + 24 <= Len(stream)
MagicAt(s) == \A k \in 1..4 : stream[s + k] = MagicBytes[k]
SizeAt(s) == ReadUInt32LE(stream, s + 16)
TerminatedAt(s) == \E k \in 1..12 : stream[s + 4 + k] = 0
CmdAt(s) ==
  LET n == CHOOSE k \in 1..12 :
             stream[s + 4 + k] = 0 /\ \A j \in 1..(k - 1) : stream[s + 4 + j] # 0
  IN [k \in 1..(n - 1) |-> stream[s + 4 + k] % 128]
ValidHeaderAt(s) ==
  /\ HasHeaderAt(s)
  /\ MagicAt(s)
  /\ TerminatedAt(s)
  /\ SizeAt(s) <= MAX_MESSAGE
FrameEnd(s) == s + 24 + SizeAt(s)
PayloadAt(s) == Slice(stream, s + 24, FrameEnd(s))
CompleteAt(s) == ValidHeaderAt(s) /\ FrameEnd(s) <= Len(stream)
ChecksumGoodAt(s) ==
  LET h == hash256(PayloadAt(s)) IN \A k \in 1..4 : stream[s + 20 + k] = h[k]
DecodesAt(s) == fromRaw(CmdAt(s), PayloadAt(s)).ok
WellFormedAt(s) == CompleteAt(s) /\ ChecksumGoodAt(s) /\ DecodesAt(s)
BadChecksumAt(s) == CompleteAt(s) /\ ~ChecksumGoodAt(s)
BadHeaderAt(s) == HasHeaderAt(s) /\ ~ValidHeaderAt(s)

AwaitHeader(x) == x.header = Null /\ x.waiting = 24

IsPacket(e) == e.type = "packet"
IsError(e) == e.type = "error"

----------------------------------------------------------------------------
(* Claims about the parser *)

\* C1: however the bytes fed so far were split into feed calls, the
\* notifications and the (header, waiting, total) state are those of a fresh
\* parser fed the same bytes in a single call.
C1_SplitEquivalence ==
  LET w == feed(Parser, Fed) IN
  /\ Notifications(parser) = Notifications(w)
  /\ parser.header = w.header
  /\ parser.waiting = w.waiting
  /\ parser.total = w.total

\* a whole stream fed one byte per call that produced a packet and an error
C1_Witness ==
  /\ pieceLen = 1
  /\ pos = Len(stream)
  /\ \E i, j \in 1..Len(parser.log) :
       IsPacket(parser.log[i]) /\ IsError(parser.log[j])

\* C2: a well-formed frame that begins where the parser awaits a header
\* yields, once fed, exactly one notification: a packet carrying the codec's
\* result, emitted with the parser back in AWAIT_HEADER (waiting = 24).
C2_ValidFrameOnePacket ==
  \A s \in Starts :
    (WellFormedAt(s) /\ pos >= FrameEnd(s)) =>
      /\ Len(EntriesAt(s)) = 1
      /\ LET e == EntriesAt(s)[1] IN
           /\ IsPacket(e)
           /\ e.val = fromRaw(CmdAt(s), PayloadAt(s)).val
           /\ e.end = FrameEnd(s)
           /\ AwaitHeader(e)
      /\ parser.consumed = FrameEnd(s) => AwaitHeader(parser)

\* a parser with nothing buffered was fed one whole frame in one call and
\* emitted its packet
C2_Witness ==
  /\ parser.total = 0
  /\ \E i \in 1..Len(parser.log) :
       LET e == parser.log[i] IN
       /\ IsPacket(e)
       /\ e.start = e.callStart
       /\ e.end = e.fedAt
       /\ e.end = pos
       /\ e.end > e.start + 24

\* C3: a frame with a valid header whose checksum field differs from its
\* payload's checksum yields exactly one 'Invalid checksum' error and no
\* packet, is never handed to the codec, and leaves the parser in
\* AWAIT_HEADER having consumed 24 + size bytes.
C3_BadChecksumOneError ==
  \A s \in Starts :
    (BadChecksumAt(s) /\ pos >= FrameEnd(s)) =>
      /\ Len(EntriesAt(s)) = 1
      /\ LET e == EntriesAt(s)[1] IN
           /\ IsError(e)
           /\ e.val = <<"Invalid checksum", ReadUInt32LE(hash256(PayloadAt(s)), 0)>>
           /\ e.end = FrameEnd(s)
           /\ e.end - e.start = 24 + SizeAt(s)
           /\ AwaitHeader(e)
      /\ \A k \in 1..Len(parser.codecCalls) : parser.codecCalls[k] # s
      /\ parser.consumed = FrameEnd(s) => AwaitHeader(parser)

\* a frame with a payload and a damaged checksum has been fed and reported
C3_Witness ==
  \E s \in Starts :
    /\ BadChecksumAt(s)
    /\ SizeAt(s) > 0
    /\ pos >= FrameEnd(s)
    /\ Len(EntriesAt(s)) = 1

\* C4: every error is emitted with the parser back in AWAIT_HEADER (header
\* absent, waiting = 24), and a well-formed frame that starts at the next
\* unconsumed byte yields exactly one packet and no error.
C4_RecoversAfterError ==
  \A i \in 1..Len(parser.log) :
    LET e == parser.log[i] IN
    IsError(e) =>
      /\ AwaitHeader(e)
      /\ (i = Len(parser.log) /\ parser.consumed = e.end) => AwaitHeader(parser)
      /\ (WellFormedAt(e.end) /\ pos >= FrameEnd(e.end)) =>
           /\ i < Len(parser.log)
           /\ IsPacket(parser.log[i + 1])
           /\ parser.log[i + 1].start = e.end
           /\ parser.log[i + 1].end = FrameEnd(e.end)
           /\ Len(EntriesAt(e.end)) = 1

\* an 'Invalid checksum' error followed by the packet of the next frame
C4_Witness ==
  \E i \in 1..(Len(parser.log) - 1) :
    /\ IsError(parser.log[i])
    /\ parser.log[i].val[1] = "Invalid checksum"
    /\ IsPacket(parser.log[i + 1])

\* what the notification e says about the bytes start..end of the stream
MatchesStream(e) ==
  IF IsPacket(e)
    THEN /\ WellFormedAt(e.start)
         /\ e.end = FrameEnd(e.start)
         /\ e.val = fromRaw(CmdAt(e.start), PayloadAt(e.start)).val
    ELSE \/ BadHeaderAt(e.start) /\ e.end = e.start + 24
         \/ /\ CompleteAt(e.start)
            /\ e.end = FrameEnd(e.start)
            /\ ~(ChecksumGoodAt(e.start) /\ DecodesAt(e.start))

\* C5: notifications come in stream order.  The frames the notifications
\* are about follow each other in the stream without gap or overlap, each
\* notification reports the bytes at its place in the stream, a frame that
\* ends before another begins is notified first, and no notification is
\* emitted before the last byte of its frame has been fed.
C5_StreamOrder ==
  /\ \A i \in 1..Len(parser.log) :
       LET e == parser.log[i] IN
       /\ e.start = (IF i = 1 THEN 0 ELSE parser.log[i - 1].end)
       /\ MatchesStream(e)
       /\ e.end <= e.fedAt
  /\ \A i, j \in 1..Len(parser.log) :
       parser.log[i].end <= parser.log[j].start => i < j

\* two frames notified in one feed call that was not the first
C5_Witness ==
  /\ Len(parser.log) >= 2
  /\ parser.log[1].callStart > 0
  /\ parser.log[1].callStart = parser.log[2].callStart
  /\ IsError(parser.log[1])
  /\ IsPacket(parser.log[2])

\* a frame that must be reported as an error once its bytes are fed
FailsAt(s) ==
  \/ BadHeaderAt(s) /\ pos >= s + 24
  \/ /\ CompleteAt(s)
     /\ pos >= FrameEnd(s)
     /\ ~(ChecksumGoodAt(s) /\ DecodesAt(s))

\* C6: feed never throws (no read of pending[0] from an empty queue, no
\* failed assertion), and every framing, size, checksum or codec failure is
\* delivered as one error notification.
C6_FeedNeverThrows ==
  /\ parser.threw = "none"
  /\ \A s \in Starts :
       FailsAt(s) => Len(EntriesAt(s)) = 1 /\ IsError(EntriesAt(s)[1])

\* a codec failure delivered as an error by a call that ran three steps
C6_Witness ==
  /\ parser.threw = "none"
  /\ parser.steps >= 3
  /\ \E i \in 1..Len(parser.log) :
       IsError(parser.log[i]) /\ parser.log[i].val[1] = "Out of bounds read"

\* C7: between feed calls total < waiting; header is absent exactly when the
\* last completed step was not a successful header parse, and then
\* waiting = 24; when header is present waiting = header.size <= MAX_MESSAGE.
C7_RestInvariant ==
  /\ parser.total < parser.waiting
  /\ parser.header = Null => parser.waiting = 24
  /\ parser.header # Null <=> parser.lastStep = "header_ok"
  /\ parser.header # Null =>
       /\ parser.waiting = parser.header.size
       /\ parser.header.size <= MAX_MESSAGE

\* at rest in the middle of a payload of the largest size
C7_Witness ==
  /\ parser.header # Null
  /\ parser.waiting = MAX_MESSAGE
  /\ parser.total > 0

\* C8: a well-formed frame of size 0 is completed by the feed call that
\* delivers the last of its 24 header bytes: once those are fed its packet
\* has been emitted, in a call that began before they were all there, and
\* the parser awaits the next header.
C8_EmptyPayloadCompletes ==
  \A s \in Starts :
    (WellFormedAt(s) /\ SizeAt(s) = 0 /\ pos >= s + 24) =>
      /\ Len(EntriesAt(s)) = 1
      /\ LET e == EntriesAt(s)[1] IN
           /\ IsPacket(e)
           /\ e.end = s + 24
           /\ e.callStart < s + 24
           /\ AwaitHeader(e)
      /\ parser.consumed = s + 24 => AwaitHeader(parser)

\* the packet of an empty frame emitted with nothing left in the queue
C8_Witness ==
  /\ parser.pending = <<>>
  /\ pos > 24
  /\ \E s \in Starts :
       /\ WellFormedAt(s)
       /\ SizeAt(s) = 0
       /\ pos = s + 24
       /\ Len(EntriesAt(s)) = 1

\* C15: every feed call terminates.  Each iteration of its outer loop takes
\* at least one byte off the queue or is a zero-length payload step that
\* leaves waiting = 24 (so that the next iteration takes 24 bytes); the
\* iterations of a call are no more than the bytes it had buffered; and
\* the loop exits with total < waiting.
C15_FeedTerminates ==
  /\ \A k \in 1..Len(parser.stepLog) :
       LET st == parser.stepLog[k] IN
       \/ st.removed >= 1
       \/ /\ st.payload
          /\ st.waitingAfter = 24
          /\ k < Len(parser.stepLog) => parser.stepLog[k + 1].removed = 24
  /\ Len(parser.stepLog) <= parser.buffered
  /\ parser.total < parser.waiting

\* a call that ran three iterations, one of them a zero-length payload step
C15_Witness ==
  /\ Len(parser.stepLog) >= 3
  /\ \E k \in 1..Len(parser.stepLog) : parser.stepLog[k].removed = 0
  /\ parser.total < parser.waiting

\* the message of the error a bad header gets: parseHeader's checks in order
HeaderErrorAt(s) ==
  IF ~MagicAt(s) THEN "Invalid magic value"
  ELSE IF ~TerminatedAt(s) THEN "Non NULL-terminated command"
  ELSE "Packet length too large"

\* the parser has read a header at offset s
HeaderReadAt(s) ==
  \/ EntriesAt(s) # <<>>
  \/ parser.header # Null /\ parser.frameStart = s

\* C16: a header that fails (magic, command without NUL, size above
\* MAX_MESSAGE) yields exactly one error and takes exactly its 24 bytes:
\* nothing is scanned for or drained, the parser awaits a header again, and
\* the 24 bytes that follow are read as the next header.
C16_HeaderErrorTakes24 ==
  \A s \in Starts :
    (BadHeaderAt(s) /\ pos >= s + 24) =>
      /\ Len(EntriesAt(s)) = 1
      /\ LET e == EntriesAt(s)[1] IN
           /\ IsError(e)
           /\ e.val[1] = HeaderErrorAt(s)
           /\ e.end = s + 24
           /\ AwaitHeader(e)
      /\ \A k \in 1..Len(parser.codecCalls) : parser.codecCalls[k] # s
      /\ parser.consumed = s + 24 => AwaitHeader(parser)
      /\ pos >= s + 48 => HeaderReadAt(s + 24)

\* a header with a wrong magic was dropped and its payload, with the bytes
\* after it, was read as a header and failed in turn
C16_Witness ==
  \E s \in Starts :
    /\ BadHeaderAt(s)
    /\ ~MagicAt(s)
    /\ SizeAt(s) > 0
    /\ pos >= s + 48
    /\ Len(EntriesAt(s)) = 1
    /\ Len(EntriesAt(s + 24)) = 1
    /\ IsError(EntriesAt(s + 24)[1])

\* a frame with a valid header and a matching checksum that the codec rejects
CodecFailsAt(s) == CompleteAt(s) /\ ChecksumGoodAt(s) /\ ~DecodesAt(s)

\* C17: when the codec throws on a frame with a valid header and matching
\* checksum, the parser emits exactly one error carrying that exception and
\* no packet, feed does not throw, and the parser is back in AWAIT_HEADER
\* when the error is emitted and goes on with the bytes that follow.
C17_CodecErrorEmitted ==
  \A s \in Starts :
    (CodecFailsAt(s) /\ pos >= FrameEnd(s)) =>
      /\ Len(EntriesAt(s)) = 1
      /\ LET e == EntriesAt(s)[1] IN
           /\ IsError(e)
           /\ e.val = fromRaw(CmdAt(s), PayloadAt(s)).val
           /\ e.end = FrameEnd(s)
           /\ AwaitHeader(e)
      /\ parser.threw = "none"
      /\ Len(SelectSeq(parser.codecCalls, LAMBDA c : c = s)) = 1
      /\ parser.consumed = FrameEnd(s) => AwaitHeader(parser)
      /\ pos >= FrameEnd(s) + 24 => HeaderReadAt(FrameEnd(s))

\* the codec's exception reported while more bytes were buffered, and the
\* frame after it delivered as a packet
C17_Witness ==
  \E i \in 1..(Len(parser.log) - 1) :
    /\ IsError(parser.log[i])
    /\ parser.log[i].val = <<"Out of bounds read">>
    /\ parser.log[i].fedAt > parser.log[i].end
    /\ IsPacket(parser.log[i + 1])
    /\ parser.log[i + 1].start = parser.log[i].end

\* C19: notifications are re-entrancy safe.  Every listener is invoked with
\* the parser in AWAIT_HEADER; and when listeners call feed from inside a
\* notification, then after the outer feed has returned the state
\* invariants hold (header absent implies waiting = 24, header present
\* implies waiting = header.size, total < waiting) and no byte is lost or
\* parsed twice: the notifications are those of a parser whose listener
\* does not feed, given the same bytes.
C19_ReentrancySafe ==
  /\ \A i \in 1..Len(parser.log) : AwaitHeader(parser.log[i])
  /\ parser.fed > 0 =>
       /\ parser.threw = "none"
       /\ parser.header = Null => parser.waiting = 24
       /\ parser.header # Null => parser.waiting = parser.header.size
       /\ parser.total < parser.waiting
       /\ Notifications(parser) = Notifications(feed(Parser, Fed))

----------------------------------------------------------------------------
(* Claims about the consensus functions *)

Positive(t) == ~t.neg /\ t.mag # <<>>

\* byte k of a little-endian number, zero above its length
Digit(x, k) == IF k <= Len(x) THEN x[k] ELSE 0

\* a <= b for little-endian byte strings read as numbers: at no byte is a
\* larger while all higher bytes agree
LeqLE(a, b) ==
  LET n == IF Len(a) > Len(b) THEN Len(a) ELSE Len(b) IN
  ~\E k \in 1..n :
     /\ Digit(a, k) > Digit(b, k)
     /\ \A j \in (k + 1)..n : Digit(a, j) = Digit(b, j)

\* the value of a little-endian number of at most three bytes
Value3(x) == Digit(x, 1) + 256 * Digit(x, 2) + 65536 * Digit(x, 3)

\* C9: verifyPOW returns true iff the target decoded from bits is strictly
\* positive and the hash, read as a little-endian number, is <= the target;
\* the result does not depend on block.hasNewPowVersion() or on the limits.
C9_VerifyPOW ==
  (cs.op = "verifyPOW" /\ cs.done) =>
    LET target == fromCompact(cs.bits) IN
    /\ cs.result = (Positive(target) /\ LeqLE(cs.hash, target.mag))
    /\ (Len(Strip(cs.hash)) <= 3 /\ Len(target.mag) <= 3) =>
         cs.result = (/\ ~target.neg
                      /\ 0 < Value3(target.mag)
                      /\ Value3(cs.hash) <= Value3(target.mag))
    /\ \A network \in Networks, new \in BOOLEAN :
         verifyPOW(network, [hasNewPowVersion |-> new], cs.hash, cs.bits) = cs.result

\* a hash equal to the target is accepted although the target is above the
\* limit of the block's proof-of-work version
C9_Witness ==
  /\ cs.op = "verifyPOW"
  /\ cs.done
  /\ cs.result
  /\ Strip(cs.hash) = fromCompact(cs.bits).mag
  /\ gt(fromCompact(cs.bits),
        IF cs.block.hasNewPowVersion
          THEN cs.network.keccakPow.limit
          ELSE cs.network.pow.limit)

\* the documented subsidy table, in coins
TableCoins(h) ==
  IF h <= 1 THEN 12226641
  ELSE IF h <= 6765 THEN 1
  ELSE IF h <= 10946 THEN 1
  ELSE IF h <= 17711 THEN 2
  ELSE IF h <= 28657 THEN 3
  ELSE IF h <= 46368 THEN 5
  ELSE IF h <= 75025 THEN 8
  ELSE IF h <= 121393 THEN 13
  ELSE IF h <= 196418 THEN 21
  ELSE IF h <= 317811 THEN 34
  ELSE IF h <= 514229 THEN 55
  ELSE IF h <= 832040 THEN 34
  ELSE IF h <= 1346269 THEN 21
  ELSE IF h <= 2178309 THEN 13
  ELSE IF h <= 3524578 THEN 8
  ELSE IF h <= 5702887 THEN 5
  ELSE IF h <= 9227465 THEN 3
  ELSE IF h <= 14930352 THEN 2
  ELSE IF h <= 24157817 THEN 1
  ELSE 0

\* C10: for every height h >= 0 getReward returns the subsidy of the
\* documented table; in particular 21 coins for 121394..196418.
C10_RewardTable ==
  (cs.op = "getReward" /\ cs.done /\ cs.height >= 0) =>
    /\ cs.result.ok
    /\ cs.result.coins = TableCoins(cs.height)

\* C11: for every height h >= 0 getReward returns a subsidy between 0 and
\* 12,226,641 coins (that many times COIN satoshis); for h < 0 it fails its
\* assertion and returns no value.
C11_RewardBounds ==
  (cs.op = "getReward" /\ cs.done) =>
    IF cs.height >= 0
      THEN /\ cs.result.ok
           /\ 0 <= cs.result.coins
           /\ cs.result.coins <= 12226641
      ELSE ~cs.result.ok

\* the largest subsidy, returned for the last height of the premine
C11_Witness ==
  /\ cs.op = "getReward"
  /\ cs.done
  /\ cs.height = 1
  /\ cs.result.ok
  /\ cs.result.coins = 12226641

\* a non-negative number toCompact keeps whole: every byte below its three
\* most significant ones is zero, or below its two most significant ones
\* when the top byte has its high bit set
Kept(x) == IF x.mag # <<>> /\ x.mag[Len(x.mag)] >= 128 THEN 2 ELSE 3
Representable(x) == \A k \in 1..(Len(x.mag) - Kept(x)) : x.mag[k] = 0

\* x with the bytes toCompact drops cleared
Cleared(x) ==
  [x EXCEPT !.mag = [k \in 1..Len(x.mag) |->
                       IF k <= Len(x.mag) - Kept(x) THEN 0 ELSE x.mag[k]]]

\* C12 as stated: for every non-negative x of at most 32 bytes,
\* fromCompact(toCompact(x)) = x.
C12_RoundTripAll ==
  (/\ cs.op = "toCompact"
   /\ cs.stage = 2
   /\ ~isNeg(cs.num)
   /\ byteLength(cs.num) <= 32) => cs.back = cs.num

\* C12, amended: for every non-negative x of at most 32 bytes,
\* fromCompact(toCompact(x)) is x with the bytes below its three most
\* significant ones cleared (below its two most significant ones when the
\* top byte is 0x80 or more); so it is x when those bytes are zero.
C12_RoundTripRepresentable ==
  (/\ cs.op = "toCompact"
   /\ cs.stage = 2
   /\ ~isNeg(cs.num)
   /\ byteLength(cs.num) <= 32) =>
    /\ cs.back = Cleared(cs.num)
    /\ Representable(cs.num) => cs.back = cs.num

\* a 32-byte number with the high bit of its top byte set came back whole
C12_Witness ==
  /\ cs.op = "toCompact"
  /\ cs.stage = 2
  /\ ~isNeg(cs.num)
  /\ byteLength(cs.num) = 32
  /\ cs.num.mag[32] >= 128
  /\ Representable(cs.num)
  /\ cs.back = cs.num

\* a normalized compact value: sign bit clear, the mantissa's most
\* significant byte not zero, and no non-zero mantissa byte shifted out when
\* the exponent is below 3
Normalized(c) ==
  /\ c[2] < 128
  /\ c[2] # 0
  /\ c[1] < 3 => c[4] = 0
  /\ c[1] < 2 => c[3] = 0
  /\ c[1] < 1 => c[2] = 0

\* C13: for every normalized 32-bit compact value c with fromCompact(c) >= 0,
\* toCompact(fromCompact(c)) = c; also toCompact(fromCompact(0x1d00ffff)) =
\* 0x1d00ffff and toCompact(0) = 0.
C13_CompactRoundTrip ==
  /\ (/\ cs.op = "fromCompact"
      /\ cs.stage = 2
      /\ Normalized(cs.compact)
      /\ ~isNeg(cs.num)) => cs.back = cs.compact
  /\ (/\ cs.op = "fromCompact"
      /\ cs.stage = 2
      /\ cs.compact = U32(29, 0, 255, 255)) => cs.back = cs.compact
  /\ (cs.op = "toCompact" /\ cs.stage >= 1 /\ isZero(cs.num)) =>
       cs.compact = U32(0, 0, 0, 0)

\* a normalized value whose exponent shifts the mantissa came back, and so
\* would one whose exponent fills the top byte
C13_Witness ==
  /\ cs.op = "fromCompact"
  /\ cs.stage = 2
  /\ Normalized(cs.compact)
  /\ cs.compact[1] = 2
  /\ cs.back = cs.compact
  /\ toCompact(fromCompact(U32(255, 127, 255, 255))) = U32(255, 127, 255, 255)

\* bit number bit (0..31) of a 32-bit word
BitOf(w, bit) == (w[4 - bit \div 8] \div 2^(bit % 8)) % 2

\* C14: for every 32-bit version and bit in 0..31, hasBit(version, bit) is
\* true iff the top three bits of version are 001 (version & 0xE0000000 =
\* 0x20000000) and bit number bit of version is set; hasBit(0x20000001, 0)
\* is true, hasBit(0x40000001, 0) and hasBit(0x20000000, 0) are false.
C14_HasBit ==
  (cs.op = "hasBit" /\ cs.done) =>
    /\ cs.result = (cs.version[1] \div 32 = 1 /\ BitOf(cs.version, cs.bit) = 1)
    /\ (cs.version = U32(32, 0, 0, 1) /\ cs.bit = 0) => cs.result
    /\ (cs.version = U32(64, 0, 0, 1) /\ cs.bit = 0) => ~cs.result
    /\ (cs.version = U32(32, 0, 0, 0) /\ cs.bit = 0) => ~cs.result

\* bit 29, one of the top bits themselves, found set
C14_Witness ==
  /\ cs.op = "hasBit"
  /\ cs.done
  /\ cs.bit = 29
  /\ cs.version[1] = 33
  /\ cs.result

\* C18: for every negative num, toCompact(num) is toCompact(|num|) with the
\* sign bit 0x00800000 set; toCompact(-1) = 0x01810000.
C18_NegativeCompact ==
  (cs.op = "toCompact" /\ cs.stage >= 1 /\ isNeg(cs.num)) =>
    /\ cs.compact = Or32(toCompact(ineg(cs.num)), U32(0, 128, 0, 0))
    /\ cs.num.mag = <<1>> => cs.compact = U32(1, 129, 0, 0)

\* C20: the subsidies of all heights together, which is what has been
\* issued once the chain is past the last band, do not exceed MAX_MONEY.
C20_TotalSupply ==
  (cs.op = "supply" /\ cs.height > LastCut) => cs.coins <= MAX_MONEY

====
